---- MODULE Spec2Model ----
(***************************************************************************)
(* Model of src/run_backtest.py: the order-book build loop (lines 36-75),  *)
(* the snapshot table (lines 80-88) and the market-making simulation loop  *)
(* (lines 96-156).                                                         *)
(*                                                                         *)
(* Money is fixed point: one unit is 10^-6 dollar, so that the inventory   *)
(* penalty `position * 0.01 * 0.0001` is `position` units exactly.  Book   *)
(* prices lie on the cent grid (multiples of 10^4 units), which makes      *)
(* `(bid + ask) / 2` and `spread / 2` exact.  Python's binary floating     *)
(* point rounds these values in the 14th digit; that rounding is not       *)
(* modelled.  cash is kept as whole dollars plus a remainder in units,     *)
(* because 100000.0 dollars do not fit a 32 bit integer of units.          *)
(***************************************************************************)
EXTENDS Integers, Sequences, FiniteSets, TLC

VARIABLES
    pc,              \* "load" (lines 16-25), "build" (loop of line 39), "sim" (loop of
                     \* line 109), "done" (line 158), "exit", or the exception raised
    idx,             \* loop variable of both loops (lines 39 and 109)
    current_bids,    \* level -> <<price, size>>  (line 36)
    current_asks,    \* level -> <<price, size>>  (line 37)
    market_data,     \* the snapshot columns of lines 29-34 as one table (lines 80-88)
    POSITION_LIMIT,  \* line 96
    position,        \* line 101
    cash,            \* line 102
    trades,          \* line 103
    pnl_history      \* line 104

vars == <<pc, idx, current_bids, current_asks, market_data, POSITION_LIMIT,
          position, cash, trades, pnl_history>>

book == <<current_bids, current_asks>>
account == <<position, cash, trades, pnl_history>>

(***************************************************************************)
(* Units and program constants                                             *)
(***************************************************************************)
Cent == 10 * 1000                 \* 0.01 dollar in units
MicrosPerDollar == 100 * Cent

STRIDE == 100                     \* line 64: idx % 100
Lot == 10                         \* lines 130-131, 136, 143-144, 149
PenaltyPerShare == 1              \* line 117: RISK_AVERSION * 0.0001 = 10^-6 dollar
DefaultPositionLimit == 100       \* line 96
initial_cash == [dollars |-> 100000, micros |-> 0]     \* line 98

\* cash += amount (lines 131, 144), amount in units, kept normalised.
CashAdd(c, amount) ==
    LET t == c.micros + amount
    IN  [dollars |-> c.dollars + (t \div MicrosPerDollar),
         micros  |-> t % MicrosPerDollar]

\* c1 - c2 in units (line 155: cash - initial_cash).
CashMinus(c1, c2) ==
    (c1.dollars - c2.dollars) * MicrosPerDollar + (c1.micros - c2.micros)

(***************************************************************************)
(* Snapshot rows (lines 65-75 and 80-88)                                   *)
(***************************************************************************)
\* Mutant: the spread as a distance, never negative.
SpreadUnsigned(best_bid, best_ask) ==
    IF best_ask >= best_bid THEN best_ask - best_bid ELSE best_bid - best_ask

Spread(best_bid, best_ask) == best_ask - best_bid          \* line 74

Mid(b, a) == (b + a) \div 2                                  \* line 84

DataFrameRow(ts, best_bid, best_ask, bid_size, ask_size) ==
    [timestamp |-> ts,
     bid       |-> best_bid,
     ask       |-> best_ask,
     mid       |-> Mid(best_bid, best_ask),
     spread    |-> Spread(best_bid, best_ask),
     bid_size  |-> bid_size,
     ask_size  |-> ask_size]

(***************************************************************************)
(* Order book (lines 36-61)                                                *)
(***************************************************************************)
NoSide == "nan"                   \* pd.isna(row['side'])   (line 40)
NoLevel == 0 - 1                  \* pd.isna(row['level'])  (line 43)

\* d[level] = v  (lines 52, 58)
Put(d, level, v) ==
    [l \in (DOMAIN d) \cup {level} |-> IF l = level THEN v ELSE d[l]]

\* del d[level]  (lines 55, 61)
Del(d, level) ==
    [l \in (DOMAIN d) \ {level} |-> d[l]]

\* Mutant: every event type that is not add or modify removes the level.
UpdateSideElseCancels(d, event, level, price, size) ==
    IF event = "add" \/ event = "modify" THEN Put(d, level, <<price, size>>)
    ELSE IF level \in DOMAIN d THEN Del(d, level) ELSE d

\* Mutant: a cancel empties the side.
UpdateSideCancelClears(d, event, level, price, size) ==
    IF event = "add" \/ event = "modify" THEN Put(d, level, <<price, size>>)
    ELSE IF event = "cancel" THEN (IF level \in DOMAIN d THEN <<>> ELSE d)
    ELSE d

\* Mutant: a modify changes a level only where there is one.
UpdateSideModifyPresentOnly(d, event, level, price, size) ==
    IF event = "add" \/ (event = "modify" /\ level \in DOMAIN d)
    THEN Put(d, level, <<price, size>>)
    ELSE IF event = "cancel" THEN (IF level \in DOMAIN d THEN Del(d, level) ELSE d)
    ELSE d

\* One side's branch on event_type (lines 51-55 and 57-61).
UpdateSide(d, event, level, price, size) ==
    IF event = "add" \/ event = "modify" THEN Put(d, level, <<price, size>>)
    ELSE IF event = "cancel" THEN (IF level \in DOMAIN d THEN Del(d, level) ELSE d)
    ELSE d

\* line 43
LevelOf(e) == IF e.level = NoLevel THEN 0 ELSE e.level

\* lines 50-61: 'B' updates the bids, every other side value the asks.
BidsAfter(e) ==
    IF e.side = "B"
    THEN UpdateSide(current_bids, e.event_type, LevelOf(e), e.price, e.size)
    ELSE current_bids

AsksAfter(e) ==
    IF e.side = "B"
    THEN current_asks
    ELSE UpdateSide(current_asks, e.event_type, LevelOf(e), e.price, e.size)

RECURSIVE SetMax(_)
SetMax(S) ==
    LET x == CHOOSE y \in S : TRUE
    IN  IF S = {x} THEN x
        ELSE LET m == SetMax(S \ {x}) IN IF x > m THEN x ELSE m

RECURSIVE SetMin(_)
SetMin(S) ==
    LET x == CHOOSE y \in S : TRUE
    IN  IF S = {x} THEN x
        ELSE LET m == SetMin(S \ {x}) IN IF x < m THEN x ELSE m

RECURSIVE SumSizes(_, _)
SumSizes(d, L) ==
    IF L = {} THEN 0
    ELSE LET l == CHOOSE y \in L : TRUE IN d[l][2] + SumSizes(d, L \ {l})

\* Mutant: the price of the lowest level index, taken as the top of the book.
best_bidOfFirstLevel(bids) ==
    bids[CHOOSE l \in DOMAIN bids : \A m \in DOMAIN bids : l <= m][1]

best_bid(bids) == SetMax({ bids[l][1] : l \in DOMAIN bids })     \* line 65
best_ask(asks) == SetMin({ asks[l][1] : l \in DOMAIN asks })     \* line 66
bid_size(bids) == SumSizes(bids, DOMAIN bids)                    \* line 67
ask_size(asks) == SumSizes(asks, DOMAIN asks)                    \* line 68

\* Mutant: the snapshot condition without the stride.
SnapshotDueEveryEvent(i, bids, asks) ==
    DOMAIN bids # {} /\ DOMAIN asks # {}

\* Mutant: the snapshot condition without the test of the two sides.
SnapshotDueStrideOnly(i, bids, asks) ==
    i % STRIDE = 0

\* line 64
SnapshotDue(i, bids, asks) ==
    i % STRIDE = 0 /\ DOMAIN bids # {} /\ DOMAIN asks # {}

\* lines 65-75
Snapshot(ts, bids, asks) ==
    DataFrameRow(ts, best_bid(bids), best_ask(asks), bid_size(bids), ask_size(asks))

(***************************************************************************)
(* Quotes and fills (lines 113-151)                                        *)
(***************************************************************************)
inventory_penalty(pos) == pos * PenaltyPerShare             \* line 117

\* Mutant: the bid a whole spread below the mid.
our_bidFullSpread(row, pos) == row.mid - row.spread - inventory_penalty(pos)

our_bid(row, pos) == row.mid - (row.spread \div 2) - inventory_penalty(pos)   \* line 120

\* Mutant: the penalty added to the ask instead of subtracted.
our_askPenaltyAdded(row, pos) ==
    row.mid + (row.spread \div 2) + inventory_penalty(pos)

our_ask(row, pos) == row.mid + (row.spread \div 2) - inventory_penalty(pos)   \* line 121

\* Mutant: the SELL guard without the position cap.
SellConditionNoCap(row, pos) ==
    row.ask <= our_bid(row, pos)

\* line 128
SellCondition(row, pos) ==
    row.ask <= our_bid(row, pos) /\ pos > -POSITION_LIMIT

\* Mutant: the BUY guard comparing the market's bid with our bid.
BuyConditionOnOurBid(row, pos) ==
    row.bid >= our_bid(row, pos) /\ pos < POSITION_LIMIT

\* line 141 (the elif's own condition)
BuyCondition(row, pos) ==
    row.bid >= our_ask(row, pos) /\ pos < POSITION_LIMIT

\* Mutant: BUY tested before SELL.
FillSideBuyFirst(row, pos) ==
    IF BuyCondition(row, pos) THEN "BUY"
    ELSE IF SellCondition(row, pos) THEN "SELL"
    ELSE "NONE"

\* Mutant: the fill conditions evaluated on prev_row (line 111).
FillSideOnPrevRow(row, pos) ==
    IF SellCondition(market_data[idx], pos) THEN "SELL"
    ELSE IF BuyCondition(market_data[idx], pos) THEN "BUY"
    ELSE "NONE"

\* The if / elif of lines 128 and 141.
FillSide(row, pos) ==
    IF SellCondition(row, pos) THEN "SELL"
    ELSE IF BuyCondition(row, pos) THEN "BUY"
    ELSE "NONE"

\* Mutant: the SELL logged with the inventory before the fill.
SellTradeInventoryBefore(row, pos) ==
    [time |-> row.timestamp, side |-> "SELL", price |-> our_bid(row, pos),
     size |-> Lot, position |-> pos]

\* Mutant: the SELL logged at the market's ask instead of our bid.
SellTradeAtMarket(row, pos) ==
    [time |-> row.timestamp, side |-> "SELL", price |-> row.ask,
     size |-> Lot, position |-> pos - Lot]

\* lines 129-138
SellTrade(row, pos) ==
    [time |-> row.timestamp, side |-> "SELL", price |-> our_bid(row, pos),
     size |-> Lot, position |-> pos - Lot]

\* lines 142-151
BuyTrade(row, pos) ==
    [time |-> row.timestamp, side |-> "BUY", price |-> our_ask(row, pos),
     size |-> Lot, position |-> pos + Lot]

\* Mutant: the unrealized part subtracted.
total_pnlSignSlip(c, pos, mid) == CashMinus(c, initial_cash) - pos * mid

\* lines 154-155
total_pnl(c, pos, mid) == CashMinus(c, initial_cash) + pos * mid

\* Mutant: pnl_history appended only when a fill fired.
LoopBodyPnlOnFill(row) ==
    LET side == FillSide(row, position) IN
    CASE side = "SELL" ->
           /\ position' = position - Lot
           /\ cash' = CashAdd(cash, our_bid(row, position) * Lot)
           /\ trades' = Append(trades, SellTrade(row, position))
           /\ pnl_history' = Append(pnl_history, total_pnl(cash', position', row.mid))
      [] side = "BUY" ->
           /\ position' = position + Lot
           /\ cash' = CashAdd(cash, -(our_ask(row, position) * Lot))
           /\ trades' = Append(trades, BuyTrade(row, position))
           /\ pnl_history' = Append(pnl_history, total_pnl(cash', position', row.mid))
      [] OTHER ->
           UNCHANGED <<position, cash, trades, pnl_history>>

\* Mutant: a BUY credits cash instead of debiting it.
LoopBodyBuyAddsCash(row) ==
    LET side == FillSide(row, position) IN
    /\ CASE side = "SELL" ->
              /\ position' = position - Lot
              /\ cash' = CashAdd(cash, our_bid(row, position) * Lot)
              /\ trades' = Append(trades, SellTrade(row, position))
         [] side = "BUY" ->
              /\ position' = position + Lot
              /\ cash' = CashAdd(cash, our_ask(row, position) * Lot)
              /\ trades' = Append(trades, BuyTrade(row, position))
         [] OTHER ->
              UNCHANGED <<position, cash, trades>>
    /\ pnl_history' = Append(pnl_history, total_pnl(cash', position', row.mid))

\* One iteration of the simulation loop on `row` (lines 110-156).  prev_row
\* (line 111) is read and never used.
LoopBody(row) ==
    LET side == FillSide(row, position) IN
    /\ CASE side = "SELL" ->
              /\ position' = position - Lot
              /\ cash' = CashAdd(cash, our_bid(row, position) * Lot)
              /\ trades' = Append(trades, SellTrade(row, position))
         [] side = "BUY" ->
              /\ position' = position + Lot
              /\ cash' = CashAdd(cash, -(our_ask(row, position) * Lot))
              /\ trades' = Append(trades, BuyTrade(row, position))
         [] OTHER ->
              UNCHANGED <<position, cash, trades>>
    /\ pnl_history' = Append(pnl_history, total_pnl(cash', position', row.mid))

(***************************************************************************)
(* SpecSim: the simulation loop over every snapshot table of at most       *)
(* MaxSnapshots rows.  The table is the loop's input; the row at position  *)
(* idx is chosen when the loop reads it (line 110), so the behaviours of   *)
(* SpecSim are the runs of lines 96-156 over all such tables.              *)
(***************************************************************************)
MaxSnapshots == 12

BasePrice == 100 * Cent

\* <<best_bid, best_ask>>: an uncrossed, a locked and a crossed book.
SimQuotes ==
    { <<BasePrice, BasePrice + Cent>>,
      <<BasePrice, BasePrice>>,
      <<BasePrice + Cent, BasePrice>> }

\* The k-th snapshot (k = 0, 1, ...) of a feed stamped with its event index.
SimRow(k, q) == DataFrameRow((k + 1) * STRIDE, q[1], q[2], 1, 1)

InitAccount ==
    /\ position = 0
    /\ cash = initial_cash
    /\ trades = <<>>
    /\ pnl_history = <<>>

InitSim ==
    /\ pc = "sim"
    /\ idx = 1
    /\ current_bids = <<>>
    /\ current_asks = <<>>
    /\ market_data \in {<<>>} \cup { <<SimRow(0, q)>> : q \in SimQuotes }
    /\ POSITION_LIMIT = DefaultPositionLimit
    /\ InitAccount

\* The table has a row at idx: the loop reads it and runs its body.
SimRead ==
    /\ pc = "sim"
    /\ Len(market_data) >= 1
    /\ Len(market_data) < MaxSnapshots
    /\ \E q \in SimQuotes :
         LET row == SimRow(Len(market_data), q) IN
         /\ market_data' = Append(market_data, row)
         /\ LoopBody(row)
    /\ idx' = idx + 1
    /\ UNCHANGED <<pc, current_bids, current_asks, POSITION_LIMIT>>

\* range(1, len(market_data)) is exhausted (line 109).
SimEnd ==
    /\ pc = "sim"
    /\ idx >= Len(market_data)
    /\ pc' = "done"
    /\ UNCHANGED <<idx, current_bids, current_asks, market_data, POSITION_LIMIT,
                   position, cash, trades, pnl_history>>

NextSim == SimRead \/ SimEnd

SpecSim == InitSim /\ [][NextSim]_vars

(***************************************************************************)
(* SpecCfg: SpecSim with POSITION_LIMIT (line 96) set to other positive    *)
(* values, among them one the lot of 10 does not divide.                   *)
(***************************************************************************)
MaxCfgSnapshots == 6

ConfigLimits == {20, 25, 30}

InitCfg ==
    /\ pc = "sim"
    /\ idx = 1
    /\ current_bids = <<>>
    /\ current_asks = <<>>
    /\ market_data \in {<<>>} \cup { <<SimRow(0, q)>> : q \in SimQuotes }
    /\ POSITION_LIMIT \in ConfigLimits
    /\ InitAccount

SimReadCfg ==
    /\ pc = "sim"
    /\ Len(market_data) >= 1
    /\ Len(market_data) < MaxCfgSnapshots
    /\ \E q \in SimQuotes :
         LET row == SimRow(Len(market_data), q) IN
         /\ market_data' = Append(market_data, row)
         /\ LoopBody(row)
    /\ idx' = idx + 1
    /\ UNCHANGED <<pc, current_bids, current_asks, POSITION_LIMIT>>

NextCfg == SimReadCfg \/ SimEnd

SpecCfg == InitCfg /\ [][NextCfg]_vars

\* The simulation over tables that also hold a book narrower than the inventory
\* penalty of one lot: the feed's prices are floats, on no tick grid.
MaxFineSnapshots == 5

FineQuotes == SimQuotes \cup { <<BasePrice, BasePrice + 2 * PenaltyPerShare>> }

InitFine ==
    /\ pc = "sim"
    /\ idx = 1
    /\ current_bids = <<>>
    /\ current_asks = <<>>
    /\ market_data \in {<<>>} \cup { <<SimRow(0, q)>> : q \in FineQuotes }
    /\ POSITION_LIMIT = DefaultPositionLimit
    /\ InitAccount

SimReadFine ==
    /\ pc = "sim"
    /\ Len(market_data) >= 1
    /\ Len(market_data) < MaxFineSnapshots
    /\ \E q \in FineQuotes :
         LET row == SimRow(Len(market_data), q) IN
         /\ market_data' = Append(market_data, row)
         /\ LoopBody(row)
    /\ idx' = idx + 1
    /\ UNCHANGED <<pc, current_bids, current_asks, POSITION_LIMIT>>

NextFine == SimReadFine \/ SimEnd

SpecFine == InitFine /\ [][NextFine]_vars

\* The simulation with line 96 setting a limit that is not positive.
NonPositiveLimits == {0, 0 - Lot}

InitNonPositive ==
    /\ pc = "sim"
    /\ idx = 1
    /\ current_bids = <<>>
    /\ current_asks = <<>>
    /\ market_data \in {<<>>} \cup { <<SimRow(0, q)>> : q \in SimQuotes }
    /\ POSITION_LIMIT \in NonPositiveLimits
    /\ InitAccount

SpecNonPositive == InitNonPositive /\ [][NextCfg]_vars

(***************************************************************************)
(* Spec: the whole script over every feed of at most MaxEvents events.     *)
(* The feed is the build loop's input; the event at position idx is chosen *)
(* when the loop reads it (line 39).                                       *)
(***************************************************************************)
MaxEvents == 201

Levels == {0, 1}
BookPrices == {BasePrice, BasePrice + Cent}
Sizes == {1, 2}
EventTypes == {"add", "modify", "cancel", "trade"}
Sides == {"B", "S", "X", NoSide}

\* The feed quotes one lot at level 0 (and where the level is missing), two at level 1.
SizeAt(level) == IF level = NoLevel THEN 1 ELSE level + 1

\* The events a feed can hold at position i; the feed is stamped with its index.
Events(i) ==
    UNION { [ts_us : {i}, event_type : EventTypes, side : Sides,
             price : BookPrices, size : {SizeAt(l)}, level : {l}] :
            l \in Levels \cup {NoLevel} }

\* Mutant: no event is skipped.
SkippedNever(e) == FALSE

\* line 40: the event is skipped
Skipped(e) == e.side = NoSide

\* The book after the iteration that reads e (lines 40-61).
StepBids(e) == IF Skipped(e) THEN current_bids ELSE BidsAfter(e)

StepAsks(e) == IF Skipped(e) THEN current_asks ELSE AsksAfter(e)

\* Line 64 is reached and its condition is true.
StepDue(i, e) == ~Skipped(e) /\ SnapshotDue(i, BidsAfter(e), AsksAfter(e))

\* Lines 65-66: max() or min() of an empty list raises ValueError.
StepRaises(i, e) ==
    StepDue(i, e) /\ (DOMAIN BidsAfter(e) = {} \/ DOMAIN AsksAfter(e) = {})

\* Lines 65-75 run to their end.
StepEmits(i, e) == StepDue(i, e) /\ ~StepRaises(i, e)

\* The snapshot table after the iteration that reads e.
StepTable(i, e) ==
    IF StepEmits(i, e)
    THEN Append(market_data, Snapshot(e.ts_us, BidsAfter(e), AsksAfter(e)))
    ELSE market_data

Init ==
    /\ pc = "load"
    /\ idx = 0
    /\ current_bids = <<>>
    /\ current_asks = <<>>
    /\ market_data = <<>>
    /\ POSITION_LIMIT = DefaultPositionLimit
    /\ InitAccount

\* Lines 16-25 on a feed with at least one row.
LoadFeed ==
    /\ pc = "load"
    /\ pc' = "build"
    /\ UNCHANGED <<idx, current_bids, current_asks, market_data, POSITION_LIMIT,
                   position, cash, trades, pnl_history>>

\* Lines 16-21 on a feed without rows: ticks['ts_us'].iloc[0] raises IndexError.
LoadEmptyFeed ==
    /\ pc = "load"
    /\ pc' = "IndexError"
    /\ UNCHANGED <<idx, current_bids, current_asks, market_data, POSITION_LIMIT,
                   position, cash, trades, pnl_history>>

\* The body of the build loop on the event e (lines 40-75).
ReadEvent(e) ==
    /\ current_bids' = StepBids(e)
    /\ current_asks' = StepAsks(e)
    /\ market_data' = StepTable(idx, e)
    /\ IF StepRaises(idx, e)
       THEN pc' = "ValueError" /\ idx' = idx
       ELSE pc' = pc /\ idx' = idx + 1
    /\ UNCHANGED <<POSITION_LIMIT, position, cash, trades, pnl_history>>

\* One iteration of the build loop (lines 39-75).
BuildStep ==
    /\ pc = "build"
    /\ idx < MaxEvents
    /\ \E e \in Events(idx) : ReadEvent(e)

\* The feed, of one row or more, is exhausted: lines 77-107, up to the first
\* range(1, ...) value.
BuildEnd ==
    /\ pc = "build"
    /\ idx >= 1
    /\ pc' = "sim"
    /\ idx' = 1
    /\ UNCHANGED <<current_bids, current_asks, market_data, POSITION_LIMIT,
                   position, cash, trades, pnl_history>>

\* One iteration of the simulation loop (lines 109-156).
SimStep ==
    /\ pc = "sim"
    /\ idx < Len(market_data)
    /\ LoopBody(market_data[idx + 1])
    /\ idx' = idx + 1
    /\ UNCHANGED <<pc, current_bids, current_asks, market_data, POSITION_LIMIT>>

\* Lines 160-212: market_data.iloc[-1] (line 178) raises IndexError on an empty
\* table.  The feed's timestamps differ, so the duration of line 184 is not 0.
Report ==
    /\ pc = "done"
    /\ pc' = IF Len(market_data) = 0 THEN "IndexError" ELSE "exit"
    /\ UNCHANGED <<idx, current_bids, current_asks, market_data, POSITION_LIMIT,
                   position, cash, trades, pnl_history>>

Next ==
    LoadFeed \/ LoadEmptyFeed \/ BuildStep \/ BuildEnd \/ SimStep \/ SimEnd \/ Report

Spec == Init /\ [][Next]_vars

(***************************************************************************)
(* The build loop alone, on the first events of a feed.                    *)
(***************************************************************************)
MaxBookEvents == 4

InitBook ==
    /\ pc = "build"
    /\ idx = 0
    /\ current_bids = <<>>
    /\ current_asks = <<>>
    /\ market_data = <<>>
    /\ POSITION_LIMIT = DefaultPositionLimit
    /\ InitAccount

BookStep ==
    /\ pc = "build"
    /\ idx < MaxBookEvents
    /\ \E e \in Events(idx) : ReadEvent(e)

SpecBook == InitBook /\ [][BookStep]_vars

(***************************************************************************)
(* The build loop on the first events of a feed with missing prices and    *)
(* sizes.  The feed is shorter than the stride and its first event leaves  *)
(* one side empty, so lines 65-75 never run on these values.               *)
(***************************************************************************)
MaxGapEvents == 3

NoPrice == 0 - 1                  \* row['price'] is NaN  (line 44)
NoSize == 0 - 1                   \* row['size'] is NaN   (line 45)

\* The events of Events(i), and those events with the price or the size missing.
EventsWithGaps(i) ==
    Events(i)
        \cup { [e EXCEPT !.price = NoPrice] : e \in Events(i) }
        \cup { [e EXCEPT !.size = NoSize] : e \in Events(i) }

GapStep ==
    /\ pc = "build"
    /\ idx < MaxGapEvents
    /\ \E e \in EventsWithGaps(idx) : ReadEvent(e)

SpecGaps == InitBook /\ [][GapStep]_vars

(***************************************************************************)
(* The script's two passes and the single streaming pass of section 5 of   *)
(* the specification (apply_event -> snapshot -> quote -> fill ->          *)
(* PnL-append per event), over the same feeds.  A behaviour is one run of  *)
(* either; the feed is one level deep.                                     *)
(***************************************************************************)
MaxStreamEvents == 301

StreamEvents(i) ==
    [ts_us : {i}, event_type : {"add", "cancel"}, side : {"B", "S", NoSide},
     price : BookPrices, size : {SizeAt(0)}, level : {0}]

InitStream ==
    /\ pc \in {"build", "stream"}
    /\ idx = 0
    /\ current_bids = <<>>
    /\ current_asks = <<>>
    /\ market_data = <<>>
    /\ POSITION_LIMIT = DefaultPositionLimit
    /\ InitAccount

\* One iteration of the build loop (lines 39-75).
FeedStep ==
    /\ pc = "build"
    /\ idx < MaxStreamEvents
    /\ \E e \in StreamEvents(idx) : ReadEvent(e)

\* The streaming pass on the event e: the book and the snapshot as in the build
\* loop, then, on an emitted snapshot past the first, the body of the simulation
\* loop on that snapshot.
StreamEvent(e) ==
    /\ current_bids' = StepBids(e)
    /\ current_asks' = StepAsks(e)
    /\ market_data' = StepTable(idx, e)
    /\ IF StepRaises(idx, e)
       THEN pc' = "ValueError" /\ idx' = idx
       ELSE pc' = pc /\ idx' = idx + 1
    /\ IF StepEmits(idx, e) /\ market_data # <<>>
       THEN LoopBody(Snapshot(e.ts_us, BidsAfter(e), AsksAfter(e)))
       ELSE UNCHANGED <<position, cash, trades, pnl_history>>
    /\ UNCHANGED POSITION_LIMIT

StreamStep ==
    /\ pc = "stream"
    /\ idx < MaxStreamEvents
    /\ \E e \in StreamEvents(idx) : StreamEvent(e)

\* The streaming pass at the end of a feed of one row or more.
StreamEnd ==
    /\ pc = "stream"
    /\ idx >= 1
    /\ pc' = "streamed"
    /\ UNCHANGED <<idx, current_bids, current_asks, market_data, POSITION_LIMIT,
                   position, cash, trades, pnl_history>>

NextStream ==
    FeedStep \/ BuildEnd \/ SimStep \/ SimEnd \/ StreamStep \/ StreamEnd

SpecStream == InitStream /\ [][NextStream]_vars

(***************************************************************************)
(* The whole script over the feeds of SpecStream, the empty feed among     *)
(* them, as a program that runs: the interpreter always executes the next  *)
(* statement, so a step that is possible is eventually taken.              *)
(***************************************************************************)
NextRun ==
    LoadFeed \/ LoadEmptyFeed \/ FeedStep \/ BuildEnd \/ SimStep \/ SimEnd \/ Report

SpecRun == Init /\ [][NextRun]_vars /\ WF_vars(NextRun)

(***************************************************************************)
(* Vocabulary of the claims                                                *)
(***************************************************************************)
Abs(x) == IF x < 0 THEN -x ELSE x

\* The simulation loop has run at least one iteration; the last one read LastRow.
HasStepped == pc \in {"sim", "done"} /\ idx >= 2
LastRow == market_data[idx]
LastTrade == trades[Len(trades)]
LastStepFilled == trades # <<>> /\ LastTrade.time = LastRow.timestamp

\* A step of the simulation loop, and the row it reads.
SimIteration == pc = "sim" /\ idx' = idx + 1
RowRead == market_data'[idx']

\* The quotes as section 4.3 of the specification states them.
QuotedBid(row, inv) == row.mid - (row.spread \div 2) - inv * PenaltyPerShare
QuotedAsk(row, inv) == row.mid + (row.spread \div 2) - inv * PenaltyPerShare

SellExecutes == Len(trades') = Len(trades) + 1 /\ trades'[Len(trades')].side = "SELL"
BuyExecutes == Len(trades') = Len(trades) + 1 /\ trades'[Len(trades')].side = "BUY"

(***************************************************************************)
(* C1: at every point of pnl_history, that is after every simulation step, *)
(* |inventory| <= PositionLimit = 100 (lot 10), from inventory 0.          *)
(***************************************************************************)
C1_PositionCap ==
    /\ Abs(position) <= DefaultPositionLimit
    /\ \A k \in 1..Len(trades) : Abs(trades[k].position) <= DefaultPositionLimit

\* The cap is reached, and a SELL whose price condition holds is withheld there.
C1_Witness ==
    /\ HasStepped
    /\ position = -DefaultPositionLimit
    /\ Len(pnl_history) = Len(trades) + 1
    /\ LastRow.ask <= QuotedBid(LastRow, position)
    /\ ~LastStepFilled

C4_AtMostOneFillSellFirst ==
    [][SimIteration =>
         LET row == RowRead IN
         /\ Len(trades') \in {Len(trades), Len(trades) + 1}
         /\ SubSeq(trades', 1, Len(trades)) = trades
         /\ ( /\ row.ask <= QuotedBid(row, position)
              /\ position > -POSITION_LIMIT
              /\ row.bid >= QuotedAsk(row, position)
              /\ position < POSITION_LIMIT )
            => (SellExecutes /\ position' = position - Lot)]_vars

\* The last step sold although the BUY condition held too (a crossed book).
C4_Witness ==
    /\ HasStepped
    /\ LastStepFilled
    /\ LastTrade.side = "SELL"
    /\ LET before == LastTrade.position + Lot IN
       /\ LastRow.ask <= QuotedBid(LastRow, before)
       /\ before > -POSITION_LIMIT
       /\ LastRow.bid >= QuotedAsk(LastRow, before)
       /\ before < POSITION_LIMIT

(***************************************************************************)
(* C5: a step executes a SELL exactly when market_ask <= our_bid and       *)
(* inventory > -PositionLimit; the SELL takes one lot off inventory, adds  *)
(* our_bid * lot to cash and appends the trade {snapshot timestamp, SELL,  *)
(* our_bid, lot, resulting inventory}.                                     *)
(***************************************************************************)
C5_SellStep ==
    [][SimIteration =>
         LET row == RowRead
             bidq == QuotedBid(row, position)
         IN
         /\ SellExecutes <=> (row.ask <= bidq /\ position > -POSITION_LIMIT)
         /\ SellExecutes =>
              /\ position' = position - Lot
              /\ CashMinus(cash', cash) = bidq * Lot
              /\ trades' = Append(trades,
                     [time |-> row.timestamp, side |-> "SELL", price |-> bidq,
                      size |-> Lot, position |-> position - Lot])]_vars

\* Scenario C at a bid of BasePrice: from inventory 0 one SELL of a lot, inventory
\* -lot, cash up by lot * BasePrice.
C5_Witness ==
    /\ HasStepped
    /\ LastStepFilled
    /\ Len(trades) = 1
    /\ LastTrade.side = "SELL"
    /\ LastTrade.price = BasePrice
    /\ position = -Lot
    /\ CashMinus(cash, initial_cash) = Lot * BasePrice

(***************************************************************************)
(* C6: a step executes a BUY exactly when no SELL fired on it and          *)
(* market_bid >= our_ask and inventory < +PositionLimit (also when the     *)
(* SELL price condition held and the cap blocked the SELL); the BUY adds   *)
(* one lot to inventory, takes our_ask * lot off cash and appends the      *)
(* trade {snapshot timestamp, BUY, our_ask, lot, resulting inventory}.     *)
(***************************************************************************)
C6_BuyStep ==
    [][SimIteration =>
         LET row == RowRead
             askq == QuotedAsk(row, position)
         IN
         /\ BuyExecutes <=>
              (~SellExecutes /\ row.bid >= askq /\ position < POSITION_LIMIT)
         /\ BuyExecutes =>
              /\ position' = position + Lot
              /\ CashMinus(cash', cash) = -(askq * Lot)
              /\ trades' = Append(trades,
                     [time |-> row.timestamp, side |-> "BUY", price |-> askq,
                      size |-> Lot, position |-> position + Lot])]_vars

\* The last step bought, at the lower cap, where the SELL price condition held.
C6_Witness ==
    /\ HasStepped
    /\ LastStepFilled
    /\ LastTrade.side = "BUY"
    /\ LastTrade.position - Lot = -POSITION_LIMIT
    /\ LastRow.ask <= QuotedBid(LastRow, -POSITION_LIMIT)
    /\ position = LastTrade.position

(***************************************************************************)
(* C7 as stated: whenever inventory equals -PositionLimit and the SELL     *)
(* price condition holds on a snapshot, no trade of any side executes on   *)
(* it and inventory stays at -PositionLimit.                               *)
(***************************************************************************)
C7_NoTradeAtLowerCap ==
    [][(SimIteration /\ position = -POSITION_LIMIT
          /\ RowRead.ask <= QuotedBid(RowRead, position))
         => (trades' = trades /\ position' = position)]_vars

(***************************************************************************)
(* C7 amended: whenever inventory equals -PositionLimit and the SELL price *)
(* condition holds on a snapshot, no SELL executes on it; a BUY executes   *)
(* exactly when market_bid >= our_ask, which needs a crossed book, and     *)
(* otherwise (in particular on a locked book, bid = ask) no trade executes *)
(* and inventory stays at -PositionLimit.                                  *)
(***************************************************************************)
C7_NoSellAtLowerCap ==
    [][(SimIteration /\ position = -POSITION_LIMIT
          /\ RowRead.ask <= QuotedBid(RowRead, position))
         => /\ ~SellExecutes
            /\ BuyExecutes <=> RowRead.bid >= QuotedAsk(RowRead, position)
            /\ BuyExecutes => RowRead.bid > RowRead.ask
            /\ ~BuyExecutes => (trades' = trades /\ position' = position)
            /\ RowRead.bid = RowRead.ask => ~BuyExecutes]_vars

\* Scenario D: at the lower cap a locked book leaves the ten SELLs as they were.
C7_Witness ==
    /\ HasStepped
    /\ position = -POSITION_LIMIT
    /\ LastRow.bid = LastRow.ask
    /\ LastRow.ask <= QuotedBid(LastRow, position)
    /\ ~LastStepFilled
    /\ Len(trades) * Lot = POSITION_LIMIT

(***************************************************************************)
(* C8: cash - initial_cash is the sum of price * lot over the SELL trades  *)
(* minus the sum of price * lot over the BUY trades of trade_log; every    *)
(* trade has size lot; a step without a fill leaves cash and inventory     *)
(* unchanged.                                                              *)
(***************************************************************************)
TradeCash(t) == IF t.side = "SELL" THEN t.price * Lot ELSE -(t.price * Lot)

RECURSIVE SumCash(_, _)
SumCash(log, n) == IF n = 0 THEN 0 ELSE SumCash(log, n - 1) + TradeCash(log[n])

C8_CashAccounting ==
    /\ [](/\ CashMinus(cash, initial_cash) = SumCash(trades, Len(trades))
          /\ \A k \in 1..Len(trades) : trades[k].size = Lot /\ trades[k].side \in {"SELL", "BUY"})
    /\ [][(SimIteration /\ Len(trades') = Len(trades))
            => (cash' = cash /\ position' = position)]_vars

\* Cash has moved in both directions: the log holds SELLs and a BUY.
C8_Witness ==
    /\ \E k \in 1..Len(trades) : trades[k].side = "BUY"
    /\ \E k \in 1..Len(trades) : trades[k].side = "SELL"
    /\ CashMinus(cash, initial_cash) = SumCash(trades, Len(trades))

(***************************************************************************)
(* C9: pnl_history gets exactly one entry for every snapshot past the      *)
(* first, fill or not, and none for the first: after a run over n          *)
(* snapshots Len(pnl_history) = max(0, n - 1), and Len(trade_log) <=       *)
(* Len(pnl_history).                                                       *)
(***************************************************************************)
C9_PnlHistoryLength ==
    /\ pc \in {"sim", "done"} =>
         /\ Len(pnl_history) = idx - 1
         /\ Len(trades) <= Len(pnl_history)
    /\ pc = "done" =>
         Len(pnl_history) = (IF Len(market_data) = 0 THEN 0 ELSE Len(market_data) - 1)

\* A finished run over three or more snapshots with a fill and a step without one.
C9_Witness ==
    /\ pc = "done"
    /\ Len(market_data) >= 3
    /\ trades # <<>>
    /\ Len(trades) < Len(pnl_history)
    /\ Len(pnl_history) = Len(market_data) - 1

(***************************************************************************)
(* C10: the pnl_history entry of snapshot k is (cash - initial_cash) +     *)
(* inventory * mid_k, with cash and inventory as they are after step k's   *)
(* fill, if any, and mid_k the mid price of snapshot k itself.             *)
(***************************************************************************)
\* Entries k, k+1, ... of pnl_history, given the cash flow c and the inventory inv
\* of the first n trades, which are the trades of the snapshots before snapshot k.
RECURSIVE EntriesFrom(_, _, _, _)
EntriesFrom(k, n, c, inv) ==
    IF k > Len(pnl_history) THEN n = Len(trades)
    ELSE LET snap == market_data[k + 1]
             hit  == n < Len(trades) /\ trades[n + 1].time = snap.timestamp
             c2   == IF hit THEN c + TradeCash(trades[n + 1]) ELSE c
             inv2 == IF ~hit THEN inv
                     ELSE IF trades[n + 1].side = "SELL" THEN inv - Lot ELSE inv + Lot
         IN  /\ pnl_history[k] = c2 + inv2 * snap.mid
             /\ EntriesFrom(k + 1, IF hit THEN n + 1 ELSE n, c2, inv2)

\* After each step the newest entry is checked against cash and position, and at
\* the end of the run every entry against the trade log.
C10_PnlEntries ==
    /\ HasStepped =>
         pnl_history[Len(pnl_history)] =
             CashMinus(cash, initial_cash) + position * LastRow.mid
    /\ pc = "done" => EntriesFrom(1, 0, 0, 0)

\* The last step filled on a snapshot whose mid differs from the one before it.
C10_Witness ==
    /\ HasStepped
    /\ idx >= 3
    /\ LastStepFilled
    /\ LastRow.mid # market_data[idx - 1].mid
    /\ pnl_history[Len(pnl_history)] # 0
    /\ pnl_history[Len(pnl_history)] = CashMinus(cash, initial_cash) + position * LastRow.mid

(***************************************************************************)
(* The run as a whole                                                      *)
(***************************************************************************)
\* The script has stopped, at its last line or at an exception.
Ended == pc \in {"exit", "IndexError", "ValueError"}

\* C11: a run that produced no snapshot (no stride-aligned event saw both sides
\* populated, or the feed was empty) completes without raising an error, with an
\* empty trade log, an empty pnl_history, inventory 0 and the initial cash.
C11_EmptyRunCompletes ==
    (Ended /\ market_data = <<>>) =>
        /\ pc = "exit"
        /\ trades = <<>>
        /\ pnl_history = <<>>
        /\ position = 0
        /\ cash = initial_cash

(***************************************************************************)
(* The build loop: what the iteration on an event does                     *)
(***************************************************************************)
\* The build loop is about to read the event at position idx.
Reading == pc = "build"

\* Both sides of the book have an active level once e has been read.
BothSidesAfter(e) == DOMAIN StepBids(e) # {} /\ DOMAIN StepAsks(e) # {}

\* The table with one more row: e's timestamp and the book as e leaves it.
TableWithSnapshot(e) ==
    Append(market_data, Snapshot(e.ts_us, StepBids(e), StepAsks(e)))

\* C12 as stated: an event emits a snapshot exactly when its index is a multiple
\* of the stride and both sides are populated after it; the snapshot carries the
\* event's timestamp and the book after the event; every other event emits nothing.
C12_SnapshotIffDue ==
    Reading =>
        \A e \in Events(idx) :
            /\ ~StepRaises(idx, e)
            /\ StepTable(idx, e) =
                 IF idx % STRIDE = 0 /\ BothSidesAfter(e)
                 THEN TableWithSnapshot(e)
                 ELSE market_data

\* C12, amended: an event emits a snapshot exactly when its side is present, its
\* index is a multiple of the stride and both sides are populated after it; the
\* snapshot carries the event's timestamp and the book after the event; every
\* other event, an event without a side among them, emits nothing.
C12_SnapshotIffReadAndDue ==
    Reading =>
        \A e \in Events(idx) :
            /\ ~StepRaises(idx, e)
            /\ StepTable(idx, e) =
                 IF e.side # NoSide /\ idx % STRIDE = 0 /\ BothSidesAfter(e)
                 THEN TableWithSnapshot(e)
                 ELSE market_data

\* The event at 100 emitted nothing, the event at 200 emitted a snapshot.
C12_Witness ==
    /\ pc = "build"
    /\ idx = 2 * STRIDE + 1
    /\ Len(market_data) = 1
    /\ market_data[1].timestamp = 2 * STRIDE

\* C13: every emitted snapshot has spread = best_ask - best_bid and
\* mid = (best_bid + best_ask) / 2 exactly, best_bid and best_ask being the book's
\* values at emission; a crossed or locked book (best_bid >= best_ask) is
\* snapshotted like any other.
C13_SpreadMidIdentity ==
    /\ \A k \in DOMAIN market_data :
         /\ market_data[k].spread = market_data[k].ask - market_data[k].bid
         /\ 2 * market_data[k].mid = market_data[k].bid + market_data[k].ask
    /\ (Reading /\ idx % STRIDE = 0) =>
         \A e \in Events(idx) :
            (e.side # NoSide /\ BothSidesAfter(e)) =>
                LET table == StepTable(idx, e)
                    last  == table[Len(table)]
                IN  /\ Len(table) = Len(market_data) + 1
                    /\ last.bid = best_bid(StepBids(e))
                    /\ last.ask = best_ask(StepAsks(e))
                    /\ last.spread = last.ask - last.bid
                    /\ 2 * last.mid = last.bid + last.ask

\* A snapshot of a crossed book and a snapshot of a locked book were emitted.
C13_Witness ==
    /\ Len(market_data) = 2
    /\ market_data[1].bid > market_data[1].ask
    /\ market_data[1].spread < 0
    /\ market_data[2].bid = market_data[2].ask
    /\ market_data[2].spread = 0

\* The iteration on the event before idx has just appended a snapshot (the feed's
\* timestamps are its indices): the book is the book of that snapshot.
JustEmitted ==
    /\ pc = "build"
    /\ idx >= 1
    /\ market_data # <<>>
    /\ market_data[Len(market_data)].timestamp = idx - 1

NewestSnapshot == market_data[Len(market_data)]

\* p is the price of an active level of d and no active level has a higher one.
IsHighestPrice(p, d) ==
    /\ \E l \in DOMAIN d : d[l][1] = p
    /\ \A l \in DOMAIN d : d[l][1] <= p

IsLowestPrice(p, d) ==
    /\ \E l \in DOMAIN d : d[l][1] = p
    /\ \A l \in DOMAIN d : d[l][1] >= p

TopLevel == CHOOSE l \in Levels : \A m \in Levels : m <= l

\* The sizes of the active levels 0..n of d, added up level by level.
RECURSIVE SizeThrough(_, _)
SizeThrough(d, n) ==
    IF n < 0 THEN 0
    ELSE (IF n \in DOMAIN d THEN d[n][2] ELSE 0) + SizeThrough(d, n - 1)

\* C14: in every emitted snapshot best_bid is the maximum price over all active
\* bid levels and best_ask the minimum price over all active ask levels, whatever
\* level holds it; the aggregate sizes are the sums of the sizes of all active
\* levels of the side.
C14_BestOverAllLevels ==
    JustEmitted =>
        /\ IsHighestPrice(NewestSnapshot.bid, current_bids)
        /\ IsLowestPrice(NewestSnapshot.ask, current_asks)
        /\ NewestSnapshot.bid_size = SizeThrough(current_bids, TopLevel)
        /\ NewestSnapshot.ask_size = SizeThrough(current_asks, TopLevel)

\* A snapshot of a book whose best bid and best ask are both at level 1, with
\* two levels and three lots on each side.
C14_Witness ==
    /\ JustEmitted
    /\ DOMAIN current_bids = {0, 1}
    /\ DOMAIN current_asks = {0, 1}
    /\ current_bids[1][1] > current_bids[0][1]
    /\ current_asks[1][1] < current_asks[0][1]
    /\ NewestSnapshot.bid = current_bids[1][1]
    /\ NewestSnapshot.ask = current_asks[1][1]
    /\ NewestSnapshot.bid_size = 3
    /\ NewestSnapshot.ask_size = 3

\* C15: an event whose side is absent, or is any value other than 'B' and 'S',
\* leaves both sides of the book, every level of them, as they were.
C15_OtherSideLeavesBook ==
    Reading =>
        \A e \in Events(idx) :
            e.side \notin {"B", "S"} =>
                /\ StepBids(e) = current_bids
                /\ StepAsks(e) = current_asks

\* The level key an event addresses: a missing level is level 0 (line 43).
KeyOf(e) == IF e.level = NoLevel THEN 0 ELSE e.level

\* The side of the book an event with side 'B' or 'S' addresses, before and after
\* the iteration that reads it, and the side it does not address.
OwnSide(e) == IF e.side = "B" THEN current_bids ELSE current_asks

OwnSideAfter(e) == IF e.side = "B" THEN StepBids(e) ELSE StepAsks(e)

OtherSideKept(e) ==
    IF e.side = "B" THEN StepAsks(e) = current_asks ELSE StepBids(e) = current_bids

\* C16: a cancel for a (side, level) key with no active entry raises no error and
\* leaves the whole book unchanged; a cancel for a present key removes that entry
\* and no other.
C16_Cancel ==
    Reading =>
        \A e \in Events(idx) :
            (e.event_type = "cancel" /\ e.side \in {"B", "S"}) =>
                /\ ~StepRaises(idx, e)
                /\ OtherSideKept(e)
                /\ IF KeyOf(e) \in DOMAIN OwnSide(e)
                   THEN /\ DOMAIN OwnSideAfter(e) = DOMAIN OwnSide(e) \ {KeyOf(e)}
                        /\ \A l \in DOMAIN OwnSideAfter(e) :
                              OwnSideAfter(e)[l] = OwnSide(e)[l]
                   ELSE OwnSideAfter(e) = OwnSide(e)

\* The loop is about to read an event of a feed in which a cancel of bid level 0
\* removes one of two bid levels and a cancel of ask level 1 finds no entry.
C16_Witness ==
    /\ Reading
    /\ idx < MaxBookEvents
    /\ DOMAIN current_bids = {0, 1}
    /\ DOMAIN current_asks = {0}
    /\ \E e \in Events(idx) :
          /\ e.event_type = "cancel" /\ e.side = "B" /\ e.level = 0
          /\ DOMAIN StepBids(e) = {1}
    /\ \E e \in Events(idx) :
          /\ e.event_type = "cancel" /\ e.side = "S" /\ e.level = 1
          /\ StepAsks(e) = current_asks

\* The same event with ADD and MODIFY exchanged.
Exchanged(e) ==
    [e EXCEPT !.event_type = IF e.event_type = "add" THEN "modify" ELSE "add"]

\* C17: ADD and MODIFY are one operation: each sets the (side, level) entry to the
\* event's (price, size) whether or not the key was present, leaving every other
\* entry alone, and an ADD put in place of a MODIFY (or the reverse) yields the
\* same book.
C17_AddIsModify ==
    Reading =>
        \A e \in Events(idx) :
            (e.event_type \in {"add", "modify"} /\ e.side \in {"B", "S"}) =>
                /\ DOMAIN OwnSideAfter(e) = DOMAIN OwnSide(e) \cup {KeyOf(e)}
                /\ OwnSideAfter(e)[KeyOf(e)] = <<e.price, e.size>>
                /\ \A l \in DOMAIN OwnSide(e) \ {KeyOf(e)} :
                      OwnSideAfter(e)[l] = OwnSide(e)[l]
                /\ OtherSideKept(e)
                /\ StepBids(Exchanged(e)) = StepBids(e)
                /\ StepAsks(Exchanged(e)) = StepAsks(e)

\* The loop is about to read an event of a feed in which a MODIFY of the absent
\* ask level 1 creates it and an ADD on the present ask level 0 replaces its price.
C17_Witness ==
    /\ Reading
    /\ idx < MaxBookEvents
    /\ DOMAIN current_asks = {0}
    /\ \E e \in Events(idx) :
          /\ e.event_type = "modify" /\ e.side = "S" /\ e.level = 1
          /\ DOMAIN StepAsks(e) = {0, 1}
    /\ \E e \in Events(idx) :
          /\ e.event_type = "add" /\ e.side = "S" /\ e.level = 0
          /\ e.price # current_asks[0][1]
          /\ StepAsks(e)[0] = <<e.price, e.size>>

\* C18: an event with side 'B' or 'S' whose price or size is missing is skipped:
\* it does not change the book, and no emitted snapshot holds a missing price or
\* size.
C18_GapEventSkipped ==
    /\ Reading =>
         \A e \in EventsWithGaps(idx) :
            (e.side \in {"B", "S"} /\ (e.price = NoPrice \/ e.size = NoSize)) =>
                /\ StepBids(e) = current_bids
                /\ StepAsks(e) = current_asks
    /\ \A k \in DOMAIN market_data :
         /\ market_data[k].bid # NoPrice
         /\ market_data[k].ask # NoPrice
         /\ market_data[k].bid_size # NoSize
         /\ market_data[k].ask_size # NoSize

\* An iteration of the build loop on an event at a multiple of the stride that
\* leaves a side of the book without an active level.
DueOnEmptySide ==
    /\ pc = "build"
    /\ pc' # "sim"
    /\ idx % STRIDE = 0
    /\ (DOMAIN current_bids' = {} \/ DOMAIN current_asks' = {})

\* C19: when a snapshot is due but a side of the book has no active level, the
\* snapshot is withheld without an error (best_bid and best_ask are not evaluated
\* on the empty side) and the loop goes on to the next event.
C19_WithheldOnEmptySide ==
    [][DueOnEmptySide =>
          /\ market_data' = market_data
          /\ pc' = "build"
          /\ idx' = idx + 1]_vars

\* The event at index 100 found bids but no asks: nothing was emitted and the
\* loop is at the next event.
C19_Witness ==
    /\ pc = "build"
    /\ idx = STRIDE + 1
    /\ market_data = <<>>
    /\ DOMAIN current_bids # {}
    /\ DOMAIN current_asks = {}

(***************************************************************************)
(* Configuration                                                           *)
(***************************************************************************)
\* C20: with a position limit that is not positive the simulation refuses to
\* run: it is in an error state from the start, and there is no snapshot, no
\* trade and no pnl_history entry.
C20_InvalidConfigRefused ==
    POSITION_LIMIT <= 0 =>
        /\ pc \notin {"build", "sim", "done", "exit"}
        /\ market_data = <<>>
        /\ trades = <<>>
        /\ pnl_history = <<>>

(***************************************************************************)
(* Quotes                                                                  *)
(***************************************************************************)
\* The inventories a run can hold: the multiples of the lot within the limit.
Inventories ==
    { i \in (0 - DefaultPositionLimit)..DefaultPositionLimit : i % Lot = 0 }

\* C21: for every snapshot the loop reads and every inventory, the quotes are
\* mid - spread/2 - p and mid + spread/2 - p with the one
\* p = inventory * risk_aversion * skew_scale, so their distance is the
\* snapshot's spread; at inventory 0 they are the snapshot's best bid and ask.
C21_QuotesKeepWidth ==
    HasStepped =>
        \A inv \in Inventories :
            /\ our_bid(LastRow, inv) = QuotedBid(LastRow, inv)
            /\ our_ask(LastRow, inv) = QuotedAsk(LastRow, inv)
            /\ our_ask(LastRow, inv) - our_bid(LastRow, inv) = LastRow.spread
            /\ inv = 0 =>
                  /\ our_bid(LastRow, inv) = LastRow.bid
                  /\ our_ask(LastRow, inv) = LastRow.ask

\* The last step sold from a short inventory at a bid quote above the best bid,
\* on a crossed book.
C21_Witness ==
    /\ HasStepped
    /\ LastStepFilled
    /\ LastTrade.side = "SELL"
    /\ LastTrade.position + Lot < 0
    /\ LastRow.spread < 0
    /\ LastTrade.price = LastRow.bid - (LastTrade.position + Lot) * PenaltyPerShare
    /\ LastTrade.price > LastRow.bid

\* C22: the penalty never makes an inventory-increasing fill easier: a SELL that
\* executes at a negative inventory is on a snapshot where the SELL would
\* trigger at inventory 0 too, and a BUY that executes at a positive inventory is
\* on a snapshot where the BUY would trigger at inventory 0 too.
C22_SkewNeverEasesIncrease ==
    [][SimIteration =>
         LET row == RowRead IN
         /\ (position < 0 /\ SellExecutes) => row.ask <= QuotedBid(row, 0)
         /\ (position > 0 /\ BuyExecutes) => row.bid >= QuotedAsk(row, 0)]_vars

(***************************************************************************)
(* The simulation loop: which snapshot and which inventory a step uses     *)
(***************************************************************************)
\* C23: the step on snapshot k (k >= 1; the row at idx + 1 of the table, counted
\* from 1) decides its fill from snapshot k's own mid, spread, best bid and best
\* ask and from the inventory the step before left (0 for k = 1), whatever the
\* snapshot before k holds; the first snapshot is never evaluated for a fill.
C23_StepUsesOwnSnapshot ==
    [][SimIteration =>
         LET row  == RowRead
             sell == /\ row.ask <= QuotedBid(row, position)
                     /\ position > -POSITION_LIMIT
             buy  == /\ ~sell
                     /\ row.bid >= QuotedAsk(row, position)
                     /\ position < POSITION_LIMIT
         IN  /\ idx >= 1
             /\ idx = 1 => position = 0
             /\ SellExecutes <=> sell
             /\ BuyExecutes <=> buy
             /\ (sell \/ buy) => trades'[Len(trades')].time = row.timestamp
             /\ ~(sell \/ buy) => trades' = trades
             /\ \A j \in DOMAIN trades' :
                   trades'[j].time # market_data'[1].timestamp]_vars

\* Three snapshots, locked, locked, uncrossed: the first was not evaluated, the
\* second sold, and the third, read after a locked one, did not fill.
C23_Witness ==
    /\ HasStepped
    /\ idx = 3
    /\ market_data[1].bid = market_data[1].ask
    /\ market_data[2].bid = market_data[2].ask
    /\ market_data[3].bid < market_data[3].ask
    /\ Len(trades) = 1
    /\ trades[1].time = market_data[2].timestamp
    /\ position = -Lot

(***************************************************************************)
(* The two passes and the streaming pass                                   *)
(***************************************************************************)
\* The account after the fill step and the PnL append of section 4.4 on one
\* snapshot, from the account a.
AfterSnapshot(row, a) ==
    LET sell == /\ row.ask <= QuotedBid(row, a.position)
                /\ a.position > -POSITION_LIMIT
        buy  == /\ ~sell
                /\ row.bid >= QuotedAsk(row, a.position)
                /\ a.position < POSITION_LIMIT
        inv  == IF sell THEN a.position - Lot
                ELSE IF buy THEN a.position + Lot ELSE a.position
        c    == IF sell THEN CashAdd(a.cash, QuotedBid(row, a.position) * Lot)
                ELSE IF buy THEN CashAdd(a.cash, -(QuotedAsk(row, a.position) * Lot))
                ELSE a.cash
        log  == IF sell
                THEN Append(a.trades,
                            [time |-> row.timestamp, side |-> "SELL",
                             price |-> QuotedBid(row, a.position),
                             size |-> Lot, position |-> inv])
                ELSE IF buy
                THEN Append(a.trades,
                            [time |-> row.timestamp, side |-> "BUY",
                             price |-> QuotedAsk(row, a.position),
                             size |-> Lot, position |-> inv])
                ELSE a.trades
    IN  [position    |-> inv,
         cash        |-> c,
         trades      |-> log,
         pnl_history |-> Append(a.pnl_history,
                                CashMinus(c, initial_cash) + inv * row.mid)]

\* The account after the snapshots k, k + 1, ... of the table, in their order.
RECURSIVE Replayed(_, _)
Replayed(k, a) ==
    IF k > Len(market_data) THEN a
    ELSE Replayed(k + 1, AfterSnapshot(market_data[k], a))

\* The outcome the snapshot table determines: every snapshot past the first,
\* once, in emission order, from the initial account.
Outcome ==
    Replayed(2, [position |-> 0, cash |-> initial_cash,
                 trades |-> <<>>, pnl_history |-> <<>>])

Account ==
    [position |-> position, cash |-> cash,
     trades |-> trades, pnl_history |-> pnl_history]

\* C24: on every feed the two passes of the script (the whole feed folded into
\* the snapshot table, then the table folded into trades and PnL) and the single
\* streaming pass end with the same trade log, pnl_history, cash and inventory:
\* at its end each of the two holds the outcome its snapshot table determines,
\* and the two build the table by the same steps.
C24_TwoPassesAreOneStream ==
    (pc \in {"done", "streamed"}) => Account = Outcome

\* The streaming pass ended on a feed of three snapshots, and sold on the second
\* and on the third.
C24_Witness ==
    /\ pc = "streamed"
    /\ Len(market_data) = 3
    /\ Len(trades) = 2
    /\ Len(pnl_history) = 2
    /\ position = -(2 * Lot)
    /\ Account = Outcome

(***************************************************************************)
(* Termination                                                             *)
(***************************************************************************)
\* The loops are over: trades, pnl_history, cash and inventory are final.
FinalState == pc \in {"done", "exit"}

\* C25: on every finite feed the run terminates at feed exhaustion: the build
\* loop takes the events one by one in feed order, the simulation loop takes the
\* snapshots one by one in emission order, appending one pnl_history entry for
\* each, and the final state is eventually reached.
C25_RunReachesFinalState ==
    /\ [][/\ (pc = "build" /\ pc' = "build") => idx' = idx + 1
          /\ (pc = "sim" /\ pc' = "sim") =>
                /\ idx' = idx + 1
                /\ Len(pnl_history') = Len(pnl_history) + 1
                /\ market_data' = market_data]_vars
    /\ <>FinalState

\* The same for the feeds of one row or more, on which the build loop is entered.
C25_LoopsReachFinalState ==
    (pc = "build") ~> FinalState

(***************************************************************************)
(* Frames                                                                  *)
(***************************************************************************)
\* The entry of d at level l, or the empty tuple where there is none.
EntryAt(d, l) == IF l \in DOMAIN d THEN d[l] ELSE <<>>

\* C26: an event with side B changes at most the bid entry at its own level and
\* no ask entry, an event with side S at most the ask entry at its own level and
\* no bid entry; and no iteration of the build loop changes cash, inventory, the
\* trade log or pnl_history.
C26_ApplyEventFrame ==
    /\ [](Reading =>
            \A e \in Events(idx) :
                e.side \in {"B", "S"} =>
                    /\ OtherSideKept(e)
                    /\ \A l \in (Levels \cup {0}) \ {KeyOf(e)} :
                          EntryAt(OwnSideAfter(e), l) = EntryAt(OwnSide(e), l))
    /\ [][pc = "build" =>
            /\ cash' = cash
            /\ position' = position
            /\ trades' = trades
            /\ pnl_history' = pnl_history]_vars

\* The loop is about to read an event of a feed in which a MODIFY of bid level 1
\* changes that entry and leaves bid level 0 and the asks as they are.
C26_Witness ==
    /\ Reading
    /\ idx < MaxBookEvents
    /\ DOMAIN current_bids = {0, 1}
    /\ DOMAIN current_asks = {0}
    /\ \E e \in Events(idx) :
          /\ e.event_type = "modify" /\ e.side = "B" /\ e.level = 1
          /\ StepBids(e)[1] # current_bids[1]
          /\ StepBids(e)[0] = current_bids[0]
          /\ StepAsks(e) = current_asks

(***************************************************************************)
(* The trade log                                                           *)
(***************************************************************************)
\* The number of trades of one side in the log.
Count(side) == Cardinality({ k \in DOMAIN trades : trades[k].side = side })

\* The inventory recorded by the trade before the k-th, 0 before the first.
RecordedBefore(k) == IF k = 1 THEN 0 ELSE trades[k - 1].position

\* C27: the trade log only grows at its end; each trade records the inventory of
\* the trade before it (0 before the first) minus the lot for a SELL and plus the
\* lot for a BUY; inventory is lot * (#BUY - #SELL), a multiple of the lot; and,
\* the feed's timestamps not decreasing, the trades' timestamps do not decrease.
C27_TradeLogConsistent ==
    /\ [](/\ \A k \in DOMAIN trades :
               /\ trades[k].side \in {"SELL", "BUY"}
               /\ trades[k].size = Lot
               /\ trades[k].position =
                     RecordedBefore(k) + (IF trades[k].side = "BUY" THEN Lot ELSE -Lot)
               /\ k > 1 => trades[k - 1].time <= trades[k].time
          /\ position = Lot * (Count("BUY") - Count("SELL"))
          /\ position % Lot = 0
          /\ trades # <<>> => position = trades[Len(trades)].position)
    /\ [][/\ Len(trades') >= Len(trades)
          /\ SubSeq(trades', 1, Len(trades)) = trades]_vars

\* A log of eleven trades, ten SELLs and then the BUY at the lower cap.
C27_Witness ==
    /\ Len(trades) = 11
    /\ Count("SELL") = 10
    /\ trades[11].side = "BUY"
    /\ position = -(9 * Lot)

(***************************************************************************)
(* Uncrossed books                                                         *)
(***************************************************************************)
Uncrossed(row) == row.bid < row.ask

\* C28: from inventory 0, while every snapshot of the table is uncrossed
\* (best_bid < best_ask) no fill executes: the trade log is empty, inventory is
\* 0, cash is the initial cash and every pnl_history entry is 0; the first fill
\* is on a locked or crossed snapshot.
C28_NoFillOnUncrossedBooks ==
    /\ (\A k \in DOMAIN market_data : Uncrossed(market_data[k])) =>
          /\ trades = <<>>
          /\ position = 0
          /\ cash = initial_cash
          /\ \A k \in DOMAIN pnl_history : pnl_history[k] = 0
    /\ trades # <<>> =>
          \E k \in DOMAIN market_data :
             /\ market_data[k].timestamp = trades[1].time
             /\ ~Uncrossed(market_data[k])
             /\ \A j \in 2..(k - 1) : Uncrossed(market_data[j])

\* The loop ended on five uncrossed snapshots, the last one narrower than the
\* penalty of a lot, without a trade and with four pnl_history entries of 0.
C28_Witness ==
    /\ pc = "done"
    /\ Len(market_data) = MaxFineSnapshots
    /\ \A k \in DOMAIN market_data : Uncrossed(market_data[k])
    /\ market_data[Len(market_data)].spread < Lot * PenaltyPerShare
    /\ trades = <<>>
    /\ Len(pnl_history) = Len(market_data) - 1
    /\ \A k \in DOMAIN pnl_history : pnl_history[k] = 0

(***************************************************************************)
(* Sampling points                                                         *)
(***************************************************************************)
\* C29: the stride counts positions in the feed, skipped events included: an
\* event without a side at a multiple of the stride emits no snapshot and leaves
\* the book, even with both sides populated, and the snapshot is not made up for
\* later: a snapshot is appended only by the event at a multiple of the stride,
\* with that event's timestamp, and every event moves the position on by one.
C29_StrideCountsSkippedEvents ==
    /\ []((Reading /\ idx % STRIDE = 0) =>
            \A e \in Events(idx) :
                e.side = NoSide =>
                    /\ StepTable(idx, e) = market_data
                    /\ StepBids(e) = current_bids
                    /\ StepAsks(e) = current_asks)
    /\ [][(pc = "build" /\ pc' = "build") =>
            /\ idx' = idx + 1
            /\ \/ market_data' = market_data
               \/ /\ idx % STRIDE = 0
                  /\ Len(market_data') = Len(market_data) + 1
                  /\ SubSeq(market_data', 1, Len(market_data)) = market_data
                  /\ market_data'[Len(market_data')].timestamp = idx]_vars

\* The event at position 100 has been read over a book with both sides populated
\* and no snapshot was emitted: it had no side.
C29_Witness ==
    /\ pc = "build"
    /\ idx = STRIDE + 1
    /\ DOMAIN current_bids # {}
    /\ DOMAIN current_asks # {}
    /\ market_data = <<>>

\* C30: an event with side 'B' or 'S' whose event_type is none of add, modify and
\* cancel leaves the book unchanged and is a sampling point all the same: at a
\* multiple of the stride, with both sides populated, it emits a snapshot of the
\* unchanged book with its own timestamp, and otherwise nothing.
C30_OtherTypeStillSamples ==
    Reading =>
        \A e \in Events(idx) :
            (e.side \in {"B", "S"} /\ e.event_type \notin {"add", "modify", "cancel"}) =>
                /\ StepBids(e) = current_bids
                /\ StepAsks(e) = current_asks
                /\ ~StepRaises(idx, e)
                /\ StepTable(idx, e) =
                     IF /\ idx % STRIDE = 0
                        /\ DOMAIN current_bids # {}
                        /\ DOMAIN current_asks # {}
                     THEN Append(market_data,
                                 Snapshot(e.ts_us, current_bids, current_asks))
                     ELSE market_data

\* The loop is about to read the event at position 100 of a feed in which that
\* event is a trade on the bid side: the book has both sides, and reading the
\* event appends a snapshot stamped 100.
C30_Witness ==
    /\ Reading
    /\ idx = STRIDE
    /\ DOMAIN current_bids # {}
    /\ DOMAIN current_asks # {}
    /\ \E e \in Events(idx) :
          /\ e.event_type = "trade" /\ e.side = "B"
          /\ Len(StepTable(idx, e)) = Len(market_data) + 1
          /\ StepTable(idx, e)[Len(market_data) + 1].timestamp = STRIDE
          /\ StepTable(idx, e)[Len(market_data) + 1].bid = best_bid(current_bids)

====
